---- MODULE Spec2Model ----
(***************************************************************************)
(* Model of da-rod/ipinfo (src/main.go): two process-wide database        *)
(* readers (asnReader, locReader), the HTTP handlers that query them and  *)
(* the handlers that reload them, each request running on its own         *)
(* goroutine.                                                             *)
(*                                                                         *)
(* Memory model: asnReader / locReader are word-sized pointers that the   *)
(* handlers read and write without synchronisation.  A racing read of a   *)
(* word-sized pointer yields one of the values written to it, so a read   *)
(* and a write of a slot are single interleaved steps here.               *)
(***************************************************************************)
EXTENDS Integers, Sequences, FiniteSets, TLC

\* ------------------------------------------------------------------ bounds
\* Number of HTTP requests served in one run (each request is one goroutine).
MaxReqs == 2

Reqs == 1..MaxReqs
\* The two handles init() opens, then the handle each request opens if it is
\* a reload: every geoip2.Open returns a reader of its own.
Handles == 1..(MaxReqs + 2)
InitHandle(s) == IF s = "asn" THEN 1 ELSE 2
NewHandle(r) == r + 2
\* The nil *geoip2.Reader.
Nil == 0

Slots == {"asn", "geo"}

\* ------------------------------------------------------- net.ParseIP (Go 1.16)
IPv4len == 4
IPv6len == 16
big == 16777215

NilIP == <<>>

DecDigits == <<"0", "1", "2", "3", "4", "5", "6", "7", "8", "9">>
HexLower == <<"a", "b", "c", "d", "e", "f">>
HexUpper == <<"A", "B", "C", "D", "E", "F">>

IsDec(c) == \E d \in 1..10 : DecDigits[d] = c
DecVal(c) == (CHOOSE d \in 1..10 : DecDigits[d] = c) - 1
IsHexLower(c) == \E d \in 1..6 : HexLower[d] = c
IsHexUpper(c) == \E d \in 1..6 : HexUpper[d] = c
HexVal(c) ==
    IF IsDec(c) THEN DecVal(c)
    ELSE IF IsHexLower(c) THEN (CHOOSE d \in 1..6 : HexLower[d] = c) + 9
    ELSE (CHOOSE d \in 1..6 : HexUpper[d] = c) + 9

\* s[k:] of Go, k counted from 0.
From(s, k) == SubSeq(s, k + 1, Len(s))

\* Decimal to integer: the value, the number of characters consumed, ok.
RECURSIVE dtoiLoop(_, _, _)
dtoiLoop(s, i, n) ==
    IF i < Len(s) /\ IsDec(s[i + 1])
    THEN LET n2 == n * 10 + DecVal(s[i + 1])
         IN  IF n2 >= big
             THEN [n |-> big, c |-> i, ok |-> FALSE]
             ELSE dtoiLoop(s, i + 1, n2)
    ELSE IF i = 0
         THEN [n |-> 0, c |-> 0, ok |-> FALSE]
         ELSE [n |-> n, c |-> i, ok |-> TRUE]

dtoi(s) == dtoiLoop(s, 0, 0)

\* Hexadecimal to integer.
RECURSIVE xtoiLoop(_, _, _)
xtoiLoop(s, i, n) ==
    IF i < Len(s) /\ (IsDec(s[i + 1]) \/ IsHexLower(s[i + 1]) \/ IsHexUpper(s[i + 1]))
    THEN LET n2 == n * 16 + HexVal(s[i + 1])
         IN  IF n2 >= big
             THEN [n |-> 0, c |-> i, ok |-> FALSE]
             ELSE xtoiLoop(s, i + 1, n2)
    ELSE IF i = 0
         THEN [n |-> 0, c |-> 0, ok |-> FALSE]
         ELSE [n |-> n, c |-> i, ok |-> TRUE]

xtoi(s) == xtoiLoop(s, 0, 0)

Zeros(n) == [k \in 1..n |-> 0]

\* net.IPv4(a, b, c, d): the 16-byte form with the v4-in-v6 prefix.
v4InV6Prefix == Zeros(10) \o <<255, 255>>
IPv4(p) == v4InV6Prefix \o p

RECURSIVE parseIPv4Loop(_, _, _)
parseIPv4Loop(s, i, p) ==
    IF i = IPv4len
    THEN IF Len(s) # 0 THEN NilIP ELSE IPv4(p)
    ELSE IF Len(s) = 0 THEN NilIP
    ELSE IF i > 0 /\ s[1] # "." THEN NilIP
    ELSE LET s1 == IF i > 0 THEN Tail(s) ELSE s
             d  == dtoi(s1)
         IN  IF ~d.ok \/ d.n > 255
             THEN NilIP
             ELSE parseIPv4Loop(From(s1, d.c), i + 1, Append(p, d.n))

parseIPv4(s) == parseIPv4Loop(s, 0, <<>>)

\* The tail of parseIPv6: the whole string must be used, and an ellipsis is
\* expanded to the missing zero bytes.
parseIPv6Finish(s, ip, ellipsis) ==
    LET i == Len(ip)
    IN  IF Len(s) # 0 THEN NilIP
        ELSE IF i < IPv6len
             THEN IF ellipsis < 0 THEN NilIP
                  ELSE SubSeq(ip, 1, ellipsis) \o Zeros(IPv6len - i)
                           \o SubSeq(ip, ellipsis + 1, i)
             ELSE IF ellipsis >= 0 THEN NilIP ELSE ip

RECURSIVE parseIPv6Loop(_, _, _)
parseIPv6Loop(s, ip, ellipsis) ==
    LET i == Len(ip)
    IN  IF i >= IPv6len THEN parseIPv6Finish(s, ip, ellipsis)
        ELSE LET x == xtoi(s)
             IN  IF ~x.ok \/ x.n > 65535 THEN NilIP
                 ELSE IF x.c < Len(s) /\ s[x.c + 1] = "."
                 THEN \* trailing IPv4
                      IF ellipsis < 0 /\ i # IPv6len - IPv4len THEN NilIP
                      ELSE IF i + IPv4len > IPv6len THEN NilIP
                      ELSE LET ip4 == parseIPv4(s)
                           IN  IF ip4 = NilIP THEN NilIP
                               ELSE parseIPv6Finish(<<>>, ip \o SubSeq(ip4, 13, 16), ellipsis)
                 ELSE LET ip2 == ip \o <<x.n \div 256, x.n % 256>>
                          s2  == From(s, x.c)
                      IN  IF Len(s2) = 0 THEN parseIPv6Finish(s2, ip2, ellipsis)
                          ELSE IF s2[1] # ":" \/ Len(s2) = 1 THEN NilIP
                          ELSE LET s3 == Tail(s2)
                               IN  IF s3[1] = ":"
                                   THEN IF ellipsis >= 0 THEN NilIP
                                        ELSE IF Len(s3) = 1
                                             THEN parseIPv6Finish(<<>>, ip2, Len(ip2))
                                             ELSE parseIPv6Loop(Tail(s3), ip2, Len(ip2))
                                   ELSE parseIPv6Loop(s3, ip2, ellipsis)

parseIPv6(s) ==
    IF Len(s) >= 2 /\ s[1] = ":" /\ s[2] = ":"
    THEN IF Len(s) = 2 THEN Zeros(IPv6len) ELSE parseIPv6Loop(From(s, 2), <<>>, 0)
    ELSE parseIPv6Loop(s, <<>>, -1)

\* The first '.' or ':' of the string decides which parser runs.
RECURSIVE ParseIPScan(_, _)
ParseIPScan(s, i) ==
    IF i > Len(s) THEN NilIP
    ELSE IF s[i] = "." THEN parseIPv4(s)
    ELSE IF s[i] = ":" THEN parseIPv6(s)
    ELSE ParseIPScan(s, i + 1)

ParseIP(s) == ParseIPScan(s, 1)

\* ------------------------------------------------------------ request inputs
\* The :ip path parameter, one character per element.
IPInputs ==
    { <<"8", ".", "8", ".", "8", ".", "8">>,
      <<"8", ".", "8", ".", "2", "5", "6", ".", "8">> }

\* net.ParseIP on each of the inputs.
ParsedIP == [s \in IPInputs |-> ParseIP(s)]

\* Values of the -l flag / IPINFO_LANG after flag.Parse.
LangArgs == {"en", "fr", "tlh"}

Kinds == {"asn_reload", "geo_reload", "asn", "geo", "ipinfo"}
ReloadKinds == {"asn_reload", "geo_reload"}
QueryKinds == {"asn", "geo", "ipinfo"}

\* The database type recorded in an mmdb file's metadata: what the file at
\* the configured path holds when it is opened.
DBTypes == {"ASN", "City"}

\* ------------------------------------------------------------- the databases
GoogleDNS == IPv4(<<8, 8, 8, 8>>)

NoNames == <<>>

\* as{} and location{}.
ZeroAS == [Number |-> 0, Name |-> ""]
ZeroLocation ==
    [Continent |-> "", ContinentCode |-> "", Country |-> "",
     CountryCode |-> "", City |-> ""]
ZeroIPInfo == [AS |-> ZeroAS, Location |-> ZeroLocation]

\* geoip2.ASN decoded from an ASN database; an address the database does
\* not hold leaves the struct at its zero value.
AsnRecord(addr) ==
    IF addr = GoogleDNS
    THEN [AutonomousSystemNumber |-> 15169,
          AutonomousSystemOrganization |-> "Google LLC"]
    ELSE [AutonomousSystemNumber |-> 0, AutonomousSystemOrganization |-> ""]

\* geoip2.City decoded from a City database.
CityRecord(addr) ==
    IF addr = GoogleDNS
    THEN [Continent |-> [Code |-> "NA",
                         Names |-> [l \in {"en", "fr"} |->
                                      IF l = "en" THEN "North America"
                                      ELSE "Amerique du Nord"]],
          Country |-> [IsoCode |-> "US",
                       Names |-> [l \in {"en", "fr"} |->
                                    IF l = "en" THEN "United States"
                                    ELSE "Etats-Unis"]],
          City |-> [Names |-> [l \in {"en"} |-> "Mountain View"]]]
    ELSE [Continent |-> [Code |-> "", Names |-> NoNames],
          Country |-> [IsoCode |-> "", Names |-> NoNames],
          City |-> [Names |-> NoNames]]

\* Go's map index: the zero value for a missing key.
NameIn(names, l) == IF l \in DOMAIN names THEN names[l] ELSE ""

NoErr == "nil"
ErrInvalidIP == "invalid ip address"
ErrInvalidMethod == "geoip2: invalid method on this database type"
ErrClosed == "cannot call Lookup on a closed database"
ErrOpen == "open: no such file or directory"

\* as{...} built from the lookup's data.
MakeAS(data) ==
    [Number |-> data.AutonomousSystemNumber,
     Name |-> data.AutonomousSystemOrganization]

\* location{...} built from the lookup's data and the language.
MakeLocation(geo, l) ==
    [Continent |-> NameIn(geo.Continent.Names, l),
     ContinentCode |-> geo.Continent.Code,
     Country |-> NameIn(geo.Country.Names, l),
     CountryCode |-> geo.Country.IsoCode,
     City |-> NameIn(geo.City.Names, l)]

\* Mutant of NormalizeLang: the switch has no default branch.
NormalizeLangKeeps(l) == l

\* The switch on *lang in init().
NormalizeLang(l) ==
    IF l \in {"en", "de", "es", "fr", "ja", "pt-BR", "ru", "zh-CN"} THEN l ELSE "en"

\* ---------------------------------------------------------------------- state
VARIABLES
    phase,       \* "flags", "loadAsn", "loadGeo", "serving", "panic", "fault"
    lang,        \* *lang
    slot,        \* slot["asn"] = asnReader, slot["geo"] = locReader
    status,      \* per handle: "unopened", "open", "closed"
    dbType,      \* per handle: the database type of the file it was opened from
    owner,       \* per handle: the slot whose path it was opened from
    closes,      \* per handle: number of Close calls made on it
    req,         \* per request: the goroutine's position and locals
    installLog   \* per slot: the handles assigned to it, in order

vars == <<phase, lang, slot, status, dbType, owner, closes, req, installLog>>

IdleReq ==
    [pc |-> "idle", kind |-> "none", ip |-> <<>>,
     newReader |-> Nil, err |-> NoErr, old |-> Nil,
     hAs |-> Nil, hLoc |-> Nil,
     asCalled |-> FALSE, locCalled |-> FALSE,
     asData |-> ZeroAS, asErr |-> NoErr,
     loData |-> ZeroLocation, loErr |-> NoErr,
     code |-> 0, errMsg |-> NoErr,
     after |-> {}, instIdx |-> 0]

Init ==
    /\ phase = "flags"
    /\ lang \in LangArgs
    /\ slot = [s \in Slots |-> Nil]
    /\ status = [h \in Handles |-> "unopened"]
    /\ dbType = [h \in Handles |-> "none"]
    /\ owner = [h \in Handles |-> "none"]
    /\ closes = [h \in Handles |-> 0]
    /\ req = [r \in Reqs |-> IdleReq]
    /\ installLog = [s \in Slots |-> <<>>]

\* loadDB(file) succeeding: a new open handle on the file's content.
Opened(h, s, t) ==
    /\ status' = [status EXCEPT ![h] = "open"]
    /\ dbType' = [dbType EXCEPT ![h] = t]
    /\ owner' = [owner EXCEPT ![h] = s]

\* db.Close()
Closed(h) ==
    /\ status' = [status EXCEPT ![h] = "closed"]
    /\ closes' = [closes EXCEPT ![h] = @ + 1]

\* An assignment to asnReader / locReader.
Assigned(s, h) ==
    /\ slot' = [slot EXCEPT ![s] = h]
    /\ installLog' = [installLog EXCEPT ![s] = Append(@, h)]

\* Exactly request r takes a step to the record rec.
Step(r, rec) == req' = [req EXCEPT ![r] = rec]

SlotOfReload(k) == IF k = "asn_reload" THEN "asn" ELSE "geo"

\* --------------------------------------- handler steps on a goroutine's locals
\* These steps read and write nothing but the request's own locals and its
\* response; each is taken as part of the step on shared state before it.

\* Mutant of IsNilIP: the nil test is missing.
IsNilIPNeverNil(ipaddr) == FALSE

\* The ipaddr == nil test of getAS and getLocation.
IsNilIP(ipaddr) == ipaddr = NilIP

\* Where a request goes once getAS has returned.
AfterAS(k) == IF k = "ipinfo" THEN "loc_parse" ELSE "as_respond"
\* Where a request goes once getLocation has returned.
AfterLoc(k) == IF k = "ipinfo" THEN "info_respond" ELSE "loc_respond"

\* getAS: ipaddr := net.ParseIP(ip); if ipaddr == nil { return as{}, error }
GetASParse(rec) ==
    IF IsNilIP(ParsedIP[rec.ip])
    THEN [rec EXCEPT !.pc = AfterAS(rec.kind), !.asData = ZeroAS,
                     !.asErr = ErrInvalidIP]
    ELSE [rec EXCEPT !.pc = "as_fetch"]

\* Mutant of GetLocationParse: getLocation does not test ipaddr and goes
\* on to the lookup.
GetLocationParseNoTest(rec) == [rec EXCEPT !.pc = "loc_fetch"]

\* getLocation: the same test.
GetLocationParse(rec) ==
    IF IsNilIP(ParsedIP[rec.ip])
    THEN [rec EXCEPT !.pc = AfterLoc(rec.kind), !.loData = ZeroLocation,
                     !.loErr = ErrInvalidIP]
    ELSE [rec EXCEPT !.pc = "loc_fetch"]

\* GET /asn/:ip answers.
AsnRespond(rec) ==
    [rec EXCEPT !.pc = "done",
                !.code = (IF rec.asErr # NoErr THEN 500 ELSE 200),
                !.errMsg = rec.asErr]

\* GET /geo/:ip answers.
GeoRespond(rec) ==
    [rec EXCEPT !.pc = "done",
                !.code = (IF rec.loErr # NoErr THEN 500 ELSE 200),
                !.errMsg = rec.loErr]

\* Mutant of GetIPInfoErr: the error of getAS is returned too.
GetIPInfoErrFirst(asErr, loErr) == IF asErr # NoErr THEN asErr ELSE loErr

\* getIPInfo: asData, _ := getAS(ip); loData, err := getLocation(ip); the
\* error it returns.
GetIPInfoErr(asErr, loErr) == loErr

\* GET /ipinfo/:ip answers with ipinfo{asData, loData} or the error.
IPInfoRespond(rec) ==
    [rec EXCEPT !.pc = "done",
                !.code = (IF GetIPInfoErr(rec.asErr, rec.loErr) # NoErr
                          THEN 500 ELSE 200),
                !.errMsg = GetIPInfoErr(rec.asErr, rec.loErr)]

\* The err != nil branch of a reload handler: 500 with the error.
ReloadRespondFail(rec) ==
    [rec EXCEPT !.pc = "done", !.code = 500, !.errMsg = rec.err]

\* The last line of the else branch of a reload handler.
ReloadRespondOK(rec) == [rec EXCEPT !.pc = "done", !.code = 200]

\* A nil pointer dereference inside a handler: gin's recovery answers 500.
Recovered(rec) ==
    [rec EXCEPT !.pc = "done", !.code = 500, !.errMsg = "nil pointer dereference"]

LocalPcs ==
    {"as_parse", "loc_parse", "as_respond", "loc_respond", "info_respond",
     "fail", "reply"}

LocalStep(rec) ==
    CASE rec.pc = "as_parse" -> GetASParse(rec)
      [] rec.pc = "loc_parse" -> GetLocationParse(rec)
      [] rec.pc = "as_respond" -> AsnRespond(rec)
      [] rec.pc = "loc_respond" -> GeoRespond(rec)
      [] rec.pc = "info_respond" -> IPInfoRespond(rec)
      [] rec.pc = "fail" -> ReloadRespondFail(rec)
      [] rec.pc = "reply" -> ReloadRespondOK(rec)

\* The request runs on its locals up to its next step on shared state.
RECURSIVE RunLocal(_)
RunLocal(rec) == IF rec.pc \in LocalPcs THEN RunLocal(LocalStep(rec)) ELSE rec

\* ------------------------------------------------------------------- init()
\* The language switch, after flag.Parse.
InitLang ==
    /\ phase = "flags"
    /\ lang' = NormalizeLang(lang)
    /\ phase' = "loadAsn"
    /\ UNCHANGED <<slot, status, dbType, owner, closes, req, installLog>>

\* asnReader, err = loadDB(*asnDB) and locReader, err = loadDB(*geoDB), err == nil.
InitLoadOK(s) ==
    /\ phase = (IF s = "asn" THEN "loadAsn" ELSE "loadGeo")
    /\ \E t \in DBTypes :
          /\ Opened(InitHandle(s), s, t)
          /\ Assigned(s, InitHandle(s))
    /\ phase' = (IF s = "asn" THEN "loadGeo" ELSE "serving")
    /\ UNCHANGED <<lang, closes, req>>

\* Mutant of InitLoadFail: the error is not fatal and init() goes on with a
\* nil reader.
InitLoadFailContinues(s) ==
    /\ phase = (IF s = "asn" THEN "loadAsn" ELSE "loadGeo")
    /\ Assigned(s, Nil)
    /\ phase' = (IF s = "asn" THEN "loadGeo" ELSE "serving")
    /\ UNCHANGED <<lang, status, dbType, owner, closes, req>>

\* loadDB fails: the reader is assigned nil and init panics.
InitLoadFail(s) ==
    /\ phase = (IF s = "asn" THEN "loadAsn" ELSE "loadGeo")
    /\ Assigned(s, Nil)
    /\ phase' = "panic"
    /\ UNCHANGED <<lang, status, dbType, owner, closes, req>>

\* ------------------------------------------------------------ the HTTP router
\* r.Run hands each request to its handler on a goroutine of its own.
\* Requests are numbered in the order they arrive.
CanDispatch(r) ==
    /\ phase = "serving"
    /\ req[r].pc = "idle"
    /\ IF r = 1 THEN TRUE ELSE req[r - 1].pc # "idle"

\* The request as its handler starts; after: the reloads that have already
\* answered 200.
Arrived(r, k, ipText) ==
    [req[r] EXCEPT
       !.pc = (IF k \in ReloadKinds THEN "load"
               ELSE IF k = "geo" THEN "loc_parse" ELSE "as_parse"),
       !.kind = k,
       !.ip = ipText,
       !.after = {d \in Reqs : /\ req[d].kind \in ReloadKinds
                               /\ req[d].pc = "done"
                               /\ req[d].code = 200}]

\* GET /asn/:ip, /geo/:ip, /ipinfo/:ip arrives.
DispatchQuery(r, k, ipText) ==
    /\ CanDispatch(r)
    /\ Step(r, RunLocal(Arrived(r, k, ipText)))
    /\ UNCHANGED <<phase, lang, slot, status, dbType, owner, closes, installLog>>

\* ---------------------------------------------- GET /asn/reload, /geo/reload
\* The request arrives and newReader, err := loadDB(path) gives err == nil.
ReloadLoadOK(r, k) ==
    /\ CanDispatch(r)
    /\ \E t \in DBTypes : Opened(NewHandle(r), SlotOfReload(k), t)
    /\ Step(r, [Arrived(r, k, <<>>) EXCEPT !.pc = "unload",
                                           !.newReader = NewHandle(r)])
    /\ UNCHANGED <<phase, lang, slot, closes, installLog>>

\* Mutant of ReloadLoadFail: loadDB's result is assigned to the global, as
\* init() does, so that a failed open leaves the slot nil.
ReloadLoadFailClearsSlot(r, k) ==
    /\ CanDispatch(r)
    /\ Assigned(SlotOfReload(k), Nil)
    /\ Step(r, RunLocal([Arrived(r, k, <<>>) EXCEPT !.pc = "fail",
                                                    !.newReader = Nil,
                                                    !.err = ErrOpen]))
    /\ UNCHANGED <<phase, lang, status, dbType, owner, closes>>

\* Mutant of ReloadLoadFail: the error branch does not end the handler and
\* the nil newReader goes on to be installed.
ReloadLoadFailFallsThrough(r, k) ==
    /\ CanDispatch(r)
    /\ Step(r, [Arrived(r, k, <<>>) EXCEPT !.pc = "unload", !.newReader = Nil,
                                           !.err = ErrOpen])
    /\ UNCHANGED <<phase, lang, slot, status, dbType, owner, closes, installLog>>

\* The request arrives and loadDB gives err != nil.
ReloadLoadFail(r, k) ==
    /\ CanDispatch(r)
    /\ Step(r, RunLocal([Arrived(r, k, <<>>) EXCEPT !.pc = "fail",
                                                    !.newReader = Nil,
                                                    !.err = ErrOpen]))
    /\ UNCHANGED <<phase, lang, slot, status, dbType, owner, closes, installLog>>

\* Mutant of ReloadReadOld: the handler unloads the other database's reader.
ReloadReadOldOther(r) ==
    /\ phase = "serving"
    /\ req[r].pc = "unload"
    /\ Step(r, [req[r] EXCEPT !.pc = "close",
                  !.old = slot[IF req[r].kind = "asn_reload" THEN "geo" ELSE "asn"]])
    /\ UNCHANGED <<phase, lang, slot, status, dbType, owner, closes, installLog>>

\* unloadDB(asnReader): the argument is read from the global.
ReloadReadOld(r) ==
    /\ phase = "serving"
    /\ req[r].pc = "unload"
    /\ Step(r, [req[r] EXCEPT !.pc = "close",
                              !.old = slot[SlotOfReload(req[r].kind)]])
    /\ UNCHANGED <<phase, lang, slot, status, dbType, owner, closes, installLog>>

\* Mutant of ReloadClose: the handler unloads the reader it has just opened.
ReloadCloseNew(r) ==
    /\ phase = "serving"
    /\ req[r].pc = "close"
    /\ IF req[r].old = Nil
       THEN /\ Step(r, Recovered(req[r]))
            /\ UNCHANGED <<status, closes>>
       ELSE /\ Closed(req[r].newReader)
            /\ Step(r, [req[r] EXCEPT !.pc = "install"])
    /\ UNCHANGED <<phase, lang, slot, dbType, owner, installLog>>

\* unloadDB: db.Close().  On a nil reader the call panics.
ReloadClose(r) ==
    /\ phase = "serving"
    /\ req[r].pc = "close"
    /\ IF req[r].old = Nil
       THEN /\ Step(r, Recovered(req[r]))
            /\ UNCHANGED <<status, closes>>
       ELSE /\ Closed(req[r].old)
            /\ Step(r, [req[r] EXCEPT !.pc = "install"])
    /\ UNCHANGED <<phase, lang, slot, dbType, owner, installLog>>

\* Mutant of ReloadInstall: the assignment to the global is missing.
ReloadInstallSkipped(r) ==
    /\ phase = "serving"
    /\ req[r].pc = "install"
    /\ Step(r, RunLocal([req[r] EXCEPT !.pc = "reply"]))
    /\ UNCHANGED <<phase, lang, slot, status, dbType, owner, closes, installLog>>

\* asnReader = newReader, and the handler answers 200.
ReloadInstall(r) ==
    /\ phase = "serving"
    /\ req[r].pc = "install"
    /\ Assigned(SlotOfReload(req[r].kind), req[r].newReader)
    /\ Step(r, RunLocal([req[r] EXCEPT !.pc = "reply",
                  !.instIdx = Len(installLog[SlotOfReload(req[r].kind)]) + 1]))
    /\ UNCHANGED <<phase, lang, status, dbType, owner, closes>>

\* ------------------------------------------------------------------- getAS
\* asnReader.ASN(ipaddr): the receiver is read from the global and the
\* lookup begins on it.
GetASFetch(r) ==
    /\ phase = "serving"
    /\ req[r].pc = "as_fetch"
    /\ Step(r, [req[r] EXCEPT !.pc = "as_lookup", !.hAs = slot["asn"],
                              !.asCalled = TRUE])
    /\ UNCHANGED <<phase, lang, slot, status, dbType, owner, closes, installLog>>

\* (*geoip2.Reader).ASN: an error when the database is not an ASN database
\* or the reader is closed, the decoded record otherwise.
ReaderASN(h, ipaddr) ==
    IF dbType[h] # "ASN" THEN [err |-> ErrInvalidMethod, data |-> AsnRecord(NilIP)]
    ELSE IF status[h] = "closed" THEN [err |-> ErrClosed, data |-> AsnRecord(NilIP)]
    ELSE [err |-> NoErr, data |-> AsnRecord(ipaddr)]

\* The lookup returns: if err != nil { return as{}, err }; return as{...}, nil
GetASLookup(r) ==
    /\ phase = "serving"
    /\ req[r].pc = "as_lookup"
    /\ IF req[r].hAs = Nil
       THEN Step(r, Recovered(req[r]))
       ELSE LET res == ReaderASN(req[r].hAs, ParsedIP[req[r].ip])
            IN  Step(r, RunLocal([req[r] EXCEPT
                          !.pc = AfterAS(req[r].kind),
                          !.asData = (IF res.err # NoErr THEN ZeroAS
                                      ELSE MakeAS(res.data)),
                          !.asErr = res.err]))
    /\ UNCHANGED <<phase, lang, slot, status, dbType, owner, closes, installLog>>

\* -------------------------------------------------------------- getLocation
\* locReader.City(ipaddr): the receiver is read and the lookup begins.
GetLocationFetch(r) ==
    /\ phase = "serving"
    /\ req[r].pc = "loc_fetch"
    /\ Step(r, [req[r] EXCEPT !.pc = "loc_lookup", !.hLoc = slot["geo"],
                              !.locCalled = TRUE])
    /\ UNCHANGED <<phase, lang, slot, status, dbType, owner, closes, installLog>>

\* (*geoip2.Reader).City: an error when the database is not a City database
\* or the reader is closed, the decoded record otherwise.
ReaderCity(h, ipaddr) ==
    IF dbType[h] # "City" THEN [err |-> ErrInvalidMethod, data |-> CityRecord(NilIP)]
    ELSE IF status[h] = "closed" THEN [err |-> ErrClosed, data |-> CityRecord(NilIP)]
    ELSE [err |-> NoErr, data |-> CityRecord(ipaddr)]

\* The lookup returns: if err != nil { return location{}, err };
\* return location{...}, nil
GetLocationLookup(r) ==
    /\ phase = "serving"
    /\ req[r].pc = "loc_lookup"
    /\ IF req[r].hLoc = Nil
       THEN Step(r, Recovered(req[r]))
       ELSE LET res == ReaderCity(req[r].hLoc, ParsedIP[req[r].ip])
            IN  Step(r, RunLocal([req[r] EXCEPT
                          !.pc = AfterLoc(req[r].kind),
                          !.loData = (IF res.err # NoErr THEN ZeroLocation
                                      ELSE MakeLocation(res.data, lang)),
                          !.loErr = res.err]))
    /\ UNCHANGED <<phase, lang, slot, status, dbType, owner, closes, installLog>>

\* ------------------------------------------------- a lookup on released memory
\* Close unmaps the file.  A lookup that runs on a reader closed under it
\* can read the unmapped region instead of returning an error: the runtime
\* stops the process (a fault is not a recoverable panic).
LookupFault(r) ==
    /\ phase = "serving"
    /\ \/ /\ req[r].pc = "as_lookup"
          /\ req[r].hAs # Nil
          /\ dbType[req[r].hAs] = "ASN"
          /\ status[req[r].hAs] = "closed"
       \/ /\ req[r].pc = "loc_lookup"
          /\ req[r].hLoc # Nil
          /\ dbType[req[r].hLoc] = "City"
          /\ status[req[r].hLoc] = "closed"
    /\ phase' = "fault"
    /\ UNCHANGED <<lang, slot, status, dbType, owner, closes, req, installLog>>

\* ------------------------------------------------------------ specification
Next ==
    \/ InitLang
    \/ \E s \in Slots : InitLoadOK(s)
    \/ \E s \in Slots : InitLoadFail(s)
    \/ \E r \in Reqs, k \in QueryKinds, ipText \in IPInputs : DispatchQuery(r, k, ipText)
    \/ \E r \in Reqs, k \in ReloadKinds : ReloadLoadOK(r, k)
    \/ \E r \in Reqs, k \in ReloadKinds : ReloadLoadFail(r, k)
    \/ \E r \in Reqs : ReloadReadOld(r)
    \/ \E r \in Reqs : ReloadClose(r)
    \/ \E r \in Reqs : ReloadInstall(r)
    \/ \E r \in Reqs : GetASFetch(r)
    \/ \E r \in Reqs : GetASLookup(r)
    \/ \E r \in Reqs : GetLocationFetch(r)
    \/ \E r \in Reqs : GetLocationLookup(r)
    \/ \E r \in Reqs : LookupFault(r)

Spec == Init /\ [][Next]_vars

\* ------------------------------------------------------- derived notions
IsReload(r) == req[r].kind \in ReloadKinds

\* The reload has read the reader it is about to close and has not yet
\* assigned the new one: it is inside its close-old / install-new section.
InSwap(r) == IsReload(r) /\ req[r].pc \in {"close", "install"}

\* What getAS(ipText) / getLocation(ipText) would return if it ran now on
\* the slot's current reader.
WouldAS(ipText) ==
    IF IsNilIP(ParsedIP[ipText]) THEN [err |-> ErrInvalidIP, data |-> ZeroAS]
    ELSE IF slot["asn"] = Nil THEN [err |-> "nil pointer dereference", data |-> ZeroAS]
    ELSE LET res == ReaderASN(slot["asn"], ParsedIP[ipText])
         IN  [err |-> res.err,
              data |-> IF res.err # NoErr THEN ZeroAS ELSE MakeAS(res.data)]

WouldLocation(ipText) ==
    IF IsNilIP(ParsedIP[ipText]) THEN [err |-> ErrInvalidIP, data |-> ZeroLocation]
    ELSE IF slot["geo"] = Nil
    THEN [err |-> "nil pointer dereference", data |-> ZeroLocation]
    ELSE LET res == ReaderCity(slot["geo"], ParsedIP[ipText])
         IN  [err |-> res.err,
              data |-> IF res.err # NoErr THEN ZeroLocation
                       ELSE MakeLocation(res.data, lang)]

Range(f) == {f[x] : x \in DOMAIN f}

\* Some step of the started request r is possible.
ReqStep(r) ==
    \/ ReloadReadOld(r)
    \/ ReloadClose(r)
    \/ ReloadInstall(r)
    \/ GetASFetch(r)
    \/ GetASLookup(r)
    \/ GetLocationFetch(r)
    \/ GetLocationLookup(r)

\* A reload handler of slot s has started and has not yet answered.
ReloadInProgress(s) ==
    \E r \in Reqs :
        /\ IsReload(r)
        /\ SlotOfReload(req[r].kind) = s
        /\ req[r].pc \notin {"idle", "done"}

\* A step of the query r: the read of the reader or the lookup's return.
QueryStep(r) ==
    \/ GetASFetch(r)
    \/ GetASLookup(r)
    \/ GetLocationFetch(r)
    \/ GetLocationLookup(r)

\* The Go scheduler runs every runnable goroutine: a query handler that can
\* take its next step takes it.  Nothing is assumed of the reload handlers:
\* a reload may stay between two of its steps for ever.
FairSpec == Spec /\ \A r \in Reqs : WF_vars(QueryStep(r))

\* ------------------------------------------------------------------ claims

\* C1: no lookup (asnReader.ASN / locReader.City) runs on, or overlaps with
\* the close of, a reader that has been closed: while a query executes its
\* lookup on a handle, that handle is not closed.
C1_NoLookupOnClosedHandle ==
    \A r \in Reqs :
        /\ req[r].pc = "as_lookup" /\ req[r].hAs # Nil
              => status[req[r].hAs] # "closed"
        /\ req[r].pc = "loc_lookup" /\ req[r].hLoc # Nil
              => status[req[r].hLoc] # "closed"

\* C2: once the process serves, each slot references one handle, and that
\* handle is open, also between two steps of a reload; Close is never made
\* on the handle that is the slot's current one.
C2_SlotHandleAlwaysOpen ==
    phase = "serving" =>
        \A s \in Slots : slot[s] # Nil /\ status[slot[s]] = "open"

\* C3: a reload whose open fails changes nothing the query path reads: the
\* slot keeps its handle, no handle is closed or changes, the handler
\* answers 500 with the error, and getAS / getLocation return for every
\* input what they returned before the attempt.
C3_FailedReloadIsNoOp ==
    [][\A r \in Reqs :
          (req'[r] # req[r] /\ req'[r].kind \in ReloadKinds /\ req'[r].err # NoErr)
          => /\ req'[r].pc = "done"
             /\ req'[r].code = 500
             /\ req'[r].errMsg = ErrOpen
             /\ slot' = slot
             /\ status' = status
             /\ dbType' = dbType
             /\ closes' = closes
             /\ \A s \in Slots : slot'[s] # Nil
             /\ \A ipText \in IPInputs :
                   /\ WouldAS(ipText)' = WouldAS(ipText)
                   /\ WouldLocation(ipText)' = WouldLocation(ipText)]_vars

\* C3 witness: a reload failed with 500 and a query that arrived after it
\* was answered from the reader the slot held before the attempt.
C3_Witness ==
    \E r, q \in Reqs :
        /\ r < q
        /\ IsReload(r) /\ req[r].err # NoErr /\ req[r].pc = "done"
        /\ req[r].code = 500
        /\ req[q].kind = "asn" /\ req[q].pc = "done" /\ req[q].code = 200
        /\ req[q].hAs = InitHandle("asn")

\* C4: at most one reload per slot is inside its close-old / install-new
\* section at a time.
C4_ReloadsMutuallyExclusive ==
    \A s \in Slots :
        Cardinality({r \in Reqs : InSwap(r) /\ SlotOfReload(req[r].kind) = s}) <= 1

\* C5: unloadDB is never invoked twice on the same handle.
C5_ClosedAtMostOnce == \A h \in Handles : closes[h] <= 1

\* C6: a query that starts after a reload has answered 200 with new handle N
\* reads from that slot N, or a handle assigned to the slot after N was,
\* and never the handle that reload replaced.
C6_QueryAfterReloadSeesNew ==
    \A q \in Reqs : \A d \in req[q].after :
        LET s == SlotOfReload(req[d].kind)
            log == installLog[s]
            i == req[d].instIdx
        IN  /\ i \in 1..Len(log)
            /\ log[i] = req[d].newReader
            /\ (s = "asn" /\ req[q].asCalled)
                  => /\ \E k \in i..Len(log) : log[k] = req[q].hAs
                     /\ req[q].hAs # req[d].old
            /\ (s = "geo" /\ req[q].locCalled)
                  => /\ \E k \in i..Len(log) : log[k] = req[q].hLoc
                     /\ req[q].hLoc # req[d].old

\* C6 witness: a query that arrived after an ASN reload answered 200 has
\* read the reader that reload installed.
C6_Witness ==
    \E q, d \in Reqs :
        /\ d \in req[q].after
        /\ req[d].kind = "asn_reload"
        /\ req[q].asCalled
        /\ req[q].hAs = req[d].newReader

\* C7: the handle a query reads from a slot is never nil and is always a
\* handle that a successful loadDB on that slot's path returned and that was
\* assigned to the slot (the startup handle or a reload's new handle).
C7_QueryReadsOpenedHandle ==
    /\ \A q \in Reqs :
          /\ req[q].asCalled
                => /\ req[q].hAs # Nil
                   /\ req[q].hAs \in Range(installLog["asn"])
                   /\ status[req[q].hAs] # "unopened"
                   /\ owner[req[q].hAs] = "asn"
          /\ req[q].locCalled
                => /\ req[q].hLoc # Nil
                   /\ req[q].hLoc \in Range(installLog["geo"])
                   /\ status[req[q].hLoc] # "unopened"
                   /\ owner[req[q].hLoc] = "geo"
    /\ phase = "serving" => \A s \in Slots : slot[s] # Nil

\* C7 witness: a query is inside its lookup on the handle an in-flight
\* reload of the same slot has read as the old one.
C7_Witness ==
    \E q, d \in Reqs :
        /\ req[q].pc = "as_lookup"
        /\ req[d].kind = "asn_reload" /\ InSwap(d)
        /\ req[q].hAs = req[d].old

\* C8: for an input that does not parse as an IP address, GET /asn/:ip and
\* GET /geo/:ip answer 500 with the invalid-input error, the record is the
\* zero value, and no lookup is invoked on a reader.
C8_InvalidIPNeverLooksUp ==
    \A r \in Reqs :
        (req[r].kind \in {"asn", "geo"} /\ ParseIP(req[r].ip) = NilIP)
        => /\ req[r].pc = "done"
           /\ req[r].code = 500
           /\ req[r].errMsg = ErrInvalidIP
           /\ ~req[r].asCalled /\ ~req[r].locCalled
           /\ req[r].hAs = Nil /\ req[r].hLoc = Nil
           /\ req[r].asData = ZeroAS /\ req[r].loData = ZeroLocation
           /\ req[r].kind = "asn" => req[r].asErr = ErrInvalidIP
           /\ req[r].kind = "geo" => req[r].loErr = ErrInvalidIP

\* C8 witness: both an /asn and a /geo request with an unparsable address
\* have been answered.
C8_Witness ==
    \E r, q \in Reqs :
        /\ req[r].kind = "asn" /\ req[q].kind = "geo"
        /\ ParseIP(req[r].ip) = NilIP /\ ParseIP(req[q].ip) = NilIP
        /\ req[r].pc = "done" /\ req[q].pc = "done"

\* C9: GET /ipinfo/:ip answers with an error (500) if and only if
\* getLocation failed; a failure of getAS alone gives 200 with the zero AS
\* record and the location found.
C9_IPInfoErrorIffLocationFails ==
    \A r \in Reqs :
        (req[r].kind = "ipinfo" /\ req[r].pc = "done")
        => /\ req[r].code \in {200, 500}
           /\ req[r].code = 500 <=> req[r].loErr # NoErr
           /\ req[r].errMsg = req[r].loErr
           /\ req[r].asErr # NoErr => req[r].asData = ZeroAS
           /\ req[r].loErr # NoErr => req[r].loData = ZeroLocation
           /\ req[r].loErr = NoErr
                 => req[r].loData = MakeLocation(CityRecord(ParseIP(req[r].ip)), lang)

\* C9 witness: for a valid address, getAS failed and getLocation succeeded,
\* and the answer is 200 with the zero AS record and a populated location.
C9_Witness ==
    \E r \in Reqs :
        /\ req[r].kind = "ipinfo" /\ req[r].pc = "done"
        /\ ParseIP(req[r].ip) # NilIP
        /\ req[r].asErr # NoErr /\ req[r].loErr = NoErr
        /\ req[r].code = 200
        /\ req[r].asData = ZeroAS
        /\ req[r].loData.CountryCode = "US"

\* C10: a step of a reload of one database leaves the other slot, its
\* assignment history and every handle opened for it as they were, and
\* opens no handle for it; and a started request always has a step it can
\* take, whatever the requests on the other slot are doing.
C10_SlotsIndependent ==
    /\ [][\A r \in Reqs :
            (req'[r] # req[r] /\ req'[r].kind \in ReloadKinds)
            => LET o == IF req'[r].kind = "asn_reload" THEN "geo" ELSE "asn"
               IN  /\ slot'[o] = slot[o]
                   /\ installLog'[o] = installLog[o]
                   /\ \A h \in Handles :
                         /\ owner[h] = o
                               => /\ status'[h] = status[h]
                                  /\ closes'[h] = closes[h]
                                  /\ dbType'[h] = dbType[h]
                         /\ owner'[h] = o => owner[h] = o]_vars
    /\ [](phase = "serving"
            => \A r \in Reqs :
                  req[r].pc \notin {"idle", "done"} => ENABLED ReqStep(r))

\* C10 witness: an ASN reload has closed the old ASN reader and installed
\* its new one while the Geo slot still holds its open startup handle.
C10_Witness ==
    \E r \in Reqs :
        /\ req[r].kind = "asn_reload" /\ req[r].pc = "done" /\ req[r].code = 200
        /\ status[InitHandle("asn")] = "closed"
        /\ slot["geo"] = InitHandle("geo")
        /\ status[InitHandle("geo")] = "open"

\* C11: a request is handled only after both startup loads succeeded: once
\* a request has started, the process is past init(), both slots hold a
\* handle that a loadDB opened, and the first handle assigned to each slot
\* is the one init() opened; a failed startup load ends in panic, where no
\* request has started and no step is possible.
C11_ServesOnlyWithBothLoaded ==
    /\ (\E r \in Reqs : req[r].pc # "idle")
          => /\ phase \in {"serving", "fault"}
             /\ \A s \in Slots : slot[s] # Nil /\ status[slot[s]] # "unopened"
    /\ phase \in {"serving", "fault"}
          => \A s \in Slots :
                /\ status[InitHandle(s)] # "unopened"
                /\ Len(installLog[s]) >= 1
                /\ installLog[s][1] = InitHandle(s)
                /\ slot[s] # Nil
    /\ phase = "panic"
          => /\ \E s \in Slots : slot[s] = Nil
             /\ \A r \in Reqs : req[r] = IdleReq
             /\ ~ENABLED Next

\* C11 witness: the ASN database loaded, the Geo database did not, and the
\* process has stopped in init().
C11_Witness ==
    /\ phase = "panic"
    /\ slot["asn"] = InitHandle("asn")
    /\ status[InitHandle("asn")] = "open"
    /\ slot["geo"] = Nil

\* C12: every query that has started reaches its response, with a record
\* or an error, whatever the reloads do: started, between two of their
\* steps, or never finishing.
C12_QueryAlwaysResponds ==
    \A r \in Reqs :
        (req[r].kind \in QueryKinds /\ req[r].pc # "idle") ~> (req[r].pc = "done")

\* C13: once init() has run its switch, *lang is one of en, de, es, fr, ja,
\* pt-BR, ru, zh-CN; the switch keeps a listed value and turns any other
\* into en; and no later step (no query, no reload) changes *lang.
C13_LangInAllowList ==
    /\ [](phase # "flags"
            => lang \in {"en", "de", "es", "fr", "ja", "pt-BR", "ru", "zh-CN"})
    /\ [][phase = "flags"
            => lang' = (IF lang \in {"en", "de", "es", "fr", "ja", "pt-BR", "ru", "zh-CN"}
                        THEN lang ELSE "en")]_vars
    /\ [][phase # "flags" => lang' = lang]_vars

\* C13 witness: the configured language fr is in force and a /geo query
\* has been answered with the French country name.
C13_Witness ==
    \E r \in Reqs :
        /\ phase = "serving" /\ lang = "fr"
        /\ req[r].kind = "geo" /\ req[r].pc = "done" /\ req[r].code = 200
        /\ req[r].loData.Country = "Etats-Unis"
        /\ req[r].loData.City = ""

\* C14: what getAS / getLocation return for a valid address depends only
\* on the slot's current handle and the address: a step that does not
\* assign the slot leaves the result of a call unchanged (a call made
\* before the step and one made after it return the same record and the
\* same error), and a step of a query changes no slot and no handle's
\* open / closed status.
C14_QueriesPure ==
    /\ [][(phase = "serving" /\ phase' = "serving")
            => \A ipText \in IPInputs :
                  ~IsNilIP(ParsedIP[ipText])
                  => /\ slot'["asn"] = slot["asn"]
                           => WouldAS(ipText)' = WouldAS(ipText)
                     /\ slot'["geo"] = slot["geo"]
                           => WouldLocation(ipText)' = WouldLocation(ipText)]_vars
    /\ [][\A r \in Reqs :
            (req'[r] # req[r] /\ req'[r].kind \in QueryKinds)
            => slot' = slot /\ status' = status /\ closes' = closes]_vars

\* C15: whenever every started reload of a slot has answered, the slot's
\* current handle is open and Close was never called on it, whatever the
\* number and the interleaving of the reloads before, overlapping reloads
\* of the same slot included.
C15_IdleSlotHandleOpen ==
    phase \in {"serving", "fault"}
    => \A s \in Slots :
          ~ReloadInProgress(s)
          => /\ slot[s] # Nil
             /\ status[slot[s]] = "open"
             /\ closes[slot[s]] = 0

\* C15 witness: two reloads of the ASN slot overlapped (both closed the
\* startup reader), both have answered 200, and the slot's handle is open.
C15_Witness ==
    /\ \A r \in Reqs :
          req[r].kind = "asn_reload" /\ req[r].pc = "done" /\ req[r].code = 200
    /\ closes[InitHandle("asn")] = 2
    /\ status[slot["asn"]] = "open"

\* C16: whenever every started reload of a slot has answered, every handle
\* that was opened for the slot and is not its current handle is closed.
C16_NoHandleLeaked ==
    \A s \in Slots :
        ~ReloadInProgress(s)
        => \A h \in Handles :
              (owner[h] = s /\ status[h] # "unopened" /\ h # slot[s])
              => status[h] = "closed"

\* C17: for an input that does not parse as an IP address, GET /ipinfo/:ip
\* answers 500 with the invalid-input error, which is the one getLocation
\* returned (the one getAS returned is dropped), both records are the zero
\* value, and no lookup is invoked on the ASN reader or on the Geo reader.
C17_IPInfoInvalidIP ==
    \A r \in Reqs :
        (req[r].kind = "ipinfo" /\ ParseIP(req[r].ip) = NilIP)
        => /\ req[r].pc = "done"
           /\ req[r].code = 500
           /\ req[r].asErr = ErrInvalidIP
           /\ req[r].loErr = ErrInvalidIP
           /\ req[r].errMsg = req[r].loErr
           /\ [AS |-> req[r].asData, Location |-> req[r].loData] = ZeroIPInfo
           /\ ~req[r].asCalled /\ ~req[r].locCalled
           /\ req[r].hAs = Nil /\ req[r].hLoc = Nil

\* C17 witness: an /ipinfo request with an unparsable address has been
\* answered while a reload of the Geo database was between its close and
\* its assignment.
C17_Witness ==
    \E r, d \in Reqs :
        /\ req[r].kind = "ipinfo" /\ ParseIP(req[r].ip) = NilIP
        /\ req[r].pc = "done" /\ req[r].code = 500
        /\ req[d].kind = "geo_reload" /\ req[d].pc = "install"

====
